---- MODULE Spec2Model ----
(***************************************************************************)
(* A model of pkg/gits/git_repo.go: PickNewOrExistingGitRepository and its *)
(* helpers GetOwner and GetRepoName.                                       *)
(*                                                                         *)
(* Pointers to auth.AuthServer and auth.UserAuth are indices into the heaps *)
(* srv and ua; 0 is nil.  Repository names are sequences of one-character  *)
(* strings so that strings.TrimSpace is computed, all other strings are    *)
(* TLA+ strings.  The collaborators that are not part of git_repo.go       *)
(* (auth.AuthConfig, auth.ConfigService, survey, CreateProvider,           *)
(* PickOrganisation, Gitter) are modelled by their contracts, with every   *)
(* outcome they can hand back chosen nondeterministically.                 *)
(***************************************************************************)
EXTENDS Integers, Sequences, FiniteSets, TLC

VARIABLES
    srv,          \* heap of auth.AuthServer objects
    ua,           \* heap of auth.UserAuth objects
    config,       \* authConfigSvc.Config(): Servers (pointers), CurrentServer
    saved,        \* what SaveUserAuth has written to the persistent store
    args,         \* the arguments of the invocation other than repoOptions
    repoOptions,  \* *GitRepositoryOptions, owned by the caller
    loc,          \* the locals of PickNewOrExistingGitRepository
    pc,           \* the position of the invocation
    ret,          \* what the invocation returned: result (<<>> is nil) and err
    trace,        \* the collaborator calls of this invocation, in order
    answers,      \* the values survey.AskOne handed to the validator
    callNo,       \* the number of the invocation
    start,        \* the store as the invocation found it
    passed,       \* repoOptions as the caller passed it to the invocation
    prev          \* the previous invocation: its store at start and its return

vars == <<srv, ua, config, saved, args, repoOptions, loc, pc, ret, trace,
          answers, callNo, start, passed, prev>>

----------------------------------------------------------------------------
(* Bounds *)

\* The number of invocations made one after the other.
MaxCalls == 2
\* The number of answers the user gives to one repository-name prompt.
MaxAnswers == 2

----------------------------------------------------------------------------
(* Strings *)

NoErr == ""

\* strings.TrimSpace, on a sequence of characters
RECURSIVE TrimLeft(_)
TrimLeft(s) == IF s # <<>> /\ Head(s) = " " THEN TrimLeft(Tail(s)) ELSE s

RECURSIVE TrimRight(_)
TrimRight(s) ==
    IF s # <<>> /\ s[Len(s)] = " " THEN TrimRight(SubSeq(s, 1, Len(s) - 1)) ELSE s

TrimSpace(s) == TrimRight(TrimLeft(s))

Dummy == <<"d", "u", "m", "m", "y">>

\* The repository names the caller may put into the options.
OptionNames == {<<>>, <<"a">>, <<"b">>}
\* The default names the caller may pass.
DefaultNames == {<<>>, <<"c">>}
\* What the user may type at the repository-name prompt.
TypedNames == {<<>>, <<" ">>, <<" ", "a">>, <<"b">>}
\* The repositories that exist on the hosting service.
TakenNames == {<<"a">>, <<" ", "a">>, Dummy}

----------------------------------------------------------------------------
(* The credential store: auth.AuthConfig and auth.ConfigService *)

\* UserAuth.IsInvalid: the credential has no token
IsInvalid(u) == u.ApiToken = ""

\* The least index of seq whose element is in the set S, 0 when there is none.
FirstIn(seq, S) ==
    LET hits == {i \in 1..Len(seq) : seq[i] \in S}
    IN  IF hits = {} THEN 0 ELSE CHOOSE i \in hits : \A j \in hits : i <= j

\* AuthConfig.GetServer: the first registered server with this URL, or nil
GetServer(st, url) ==
    LET i == FirstIn(st.config.Servers, {p \in 1..Len(st.srv) : st.srv[p].URL = url})
    IN  IF i = 0 THEN 0 ELSE st.config.Servers[i]

\* AuthConfig.GetOrCreateServer: the registered server of the URL; when there
\* is none a new server record is created and registered.
GetOrCreateServer(st, url) ==
    LET p == GetServer(st, url)
        n == Len(st.srv) + 1
        fresh == [Name |-> url, URL |-> url, Users |-> <<>>, CurrentUser |-> ""]
    IN  IF p # 0
        THEN [p |-> p, st |-> st]
        ELSE [p |-> n,
              st |-> [st EXCEPT !.srv = Append(@, fresh),
                                !.config.Servers = Append(@, n)]]

\* AuthConfig.FindUserAuth: the first credential of that name registered for
\* the server of the URL, or nil
FindUserAuth(st, url, username) ==
    LET s == GetServer(st, url)
        users == IF s = 0 THEN <<>> ELSE st.srv[s].Users
        i == FirstIn(users, {p \in 1..Len(st.ua) : st.ua[p].Username = username})
    IN  IF i = 0 THEN 0 ELSE users[i]

\* AuthConfig.GetOrCreateUserAuth: the credential of that name for the server
\* of the URL; when there is none a new credential without a token is created
\* and registered with the server (which is registered too when it was not).
GetOrCreateUserAuth(st, url, username) ==
    LET found == FindUserAuth(st, url, username)
        gs == GetOrCreateServer(st, url)
        n == Len(st.ua) + 1
        fresh == [Username |-> username, ApiToken |-> ""]
    IN  IF found # 0
        THEN [p |-> found, st |-> st]
        ELSE [p |-> n,
              st |-> [gs.st EXCEPT !.ua = Append(@, fresh),
                                   !.srv[gs.p].Users = Append(@, n)]]

\* The store as one record, and its parts after an operation.
Store == [srv |-> srv, ua |-> ua, config |-> config, saved |-> saved]

SetStore(st) ==
    /\ srv' = st.srv
    /\ ua' = st.ua
    /\ config' = st.config
    /\ saved' = st.saved

----------------------------------------------------------------------------
(* The states an invocation can start in *)

\* The credentials on the heap: bob has no token, alice has one, and the
\* third has a token and no user name.
InitUA ==
    << [Username |-> "bob", ApiToken |-> ""],
       [Username |-> "alice", ApiToken |-> "t1"],
       [Username |-> "", ApiToken |-> "t1"] >>

\* The servers on the heap; cu is the current user of the first one.  The
\* third one has no user, and its Name is the URL of the first one.
InitSrv(cu) ==
    << [Name |-> "s1", URL |-> "u1", Users |-> <<1, 2>>, CurrentUser |-> cu],
       [Name |-> "s2", URL |-> "u2", Users |-> <<3>>, CurrentUser |-> ""],
       [Name |-> "u1", URL |-> "u3", Users |-> <<>>, CurrentUser |-> ""] >>

\* The stores: which servers are registered, in which order, the current
\* server (a name, a URL, or a value that matches nothing) and the current
\* user of server s1.
Shapes ==
    { [Servers |-> <<>>, CurrentServer |-> "", CurrentUser |-> ""],
      [Servers |-> <<1>>, CurrentServer |-> "", CurrentUser |-> ""],
      [Servers |-> <<1>>, CurrentServer |-> "u1", CurrentUser |-> "alice"],
      [Servers |-> <<1, 2>>, CurrentServer |-> "s2", CurrentUser |-> "alice"],
      [Servers |-> <<2, 1>>, CurrentServer |-> "u1", CurrentUser |-> "zed"],
      [Servers |-> <<3, 1>>, CurrentServer |-> "zz", CurrentUser |-> "alice"],
      [Servers |-> <<2, 3, 1>>, CurrentServer |-> "u1", CurrentUser |-> ""] }

ArgSets ==
    [batchMode : BOOLEAN,
     defaultRepoName : DefaultNames,
     server : {0, 1},
     userAuth : {0, 1, 2},
     allowExistingRepo : BOOLEAN]

OptionSets ==
    [ServerURL : {"", "u2"},
     ServerKind : {""},
     Username : {"", "alice"},
     ApiToken : {"", "t2"},
     Owner : {"", "acme"},
     RepoName : OptionNames,
     Private : BOOLEAN]

NoLocals ==
    [server |-> 0, userAuth |-> 0, gitUsername |-> "", provider |-> 0,
     org |-> "", owner |-> "", repoName |-> <<>>]

NoReturn == [result |-> <<>>, err |-> NoErr]

Init ==
    /\ \E sh \in Shapes :
          /\ srv = InitSrv(sh.CurrentUser)
          /\ config = [Servers |-> sh.Servers, CurrentServer |-> sh.CurrentServer]
    /\ ua = InitUA
    /\ saved = <<>>
    /\ args \in ArgSets
    /\ repoOptions \in OptionSets
    /\ loc = NoLocals
    /\ pc = "server"
    /\ ret = NoReturn
    /\ trace = <<>>
    /\ answers = <<>>
    /\ callNo = 1
    /\ start = Store
    /\ passed = repoOptions
    /\ prev = <<>>

----------------------------------------------------------------------------
(* The decisions of PickNewOrExistingGitRepository, GetOwner, GetRepoName *)

\* The server of a batch invocation is the first registered server, whatever
\* the current server is.
BatchServerFirst(st) == st.config.Servers[1]

\* The credential of a batch invocation is the first credential of the
\* server, whatever its current user is.
BatchUserAuthFirst(st, server) == st.srv[server].Users[1]

\* The server of a batch invocation: the first registered server whose Name
\* or URL is the current server, else the first registered server.
BatchServer(st) ==
    LET cs == st.config.CurrentServer
        i == FirstIn(st.config.Servers,
                     {p \in 1..Len(st.srv) : st.srv[p].Name = cs \/ st.srv[p].URL = cs})
    IN  IF cs # "" /\ i # 0 THEN st.config.Servers[i] ELSE st.config.Servers[1]

\* Whether the batch credential selection asks the store for the current user.
LooksUpCurrentUser(st, server) == st.srv[server].CurrentUser # ""

\* The credential of a batch invocation: the one the store finds for the
\* server's current user, else the first credential of the server.
BatchUserAuth(st, server) ==
    LET s == st.srv[server]
        found == IF LooksUpCurrentUser(st, server)
                 THEN FindUserAuth(st, s.URL, s.CurrentUser)
                 ELSE 0
    IN  IF found = 0 THEN s.Users[1] ELSE found

\* The token of the options is never applied.
ApplyTokenNever(u, token) == u

\* The token of the options is applied to every credential.
ApplyTokenAlways(u, token) ==
    IF token # "" THEN [u EXCEPT !.ApiToken = token] ELSE u

\* The token of the options is applied to a credential that is invalid.
ApplyToken(u, token) ==
    IF IsInvalid(u) /\ token # "" THEN [u EXCEPT !.ApiToken = token] ELSE u

\* The picked organisation is the owner even when none was picked.
GetOwnerNoFallback(batchMode, gitUsername, org) ==
    IF batchMode THEN gitUsername ELSE org

\* GetOwner, with org what PickOrganisation returned (interactive mode only)
GetOwner(batchMode, gitUsername, org) ==
    IF batchMode
    THEN gitUsername
    ELSE IF org = "" THEN gitUsername ELSE org

\* The default name is used even when it is empty.
BatchRepoNameNoPlaceholder(defaultRepoName) == defaultRepoName

\* GetRepoName in batch mode
BatchRepoName(defaultRepoName) ==
    IF defaultRepoName = <<>> THEN Dummy ELSE defaultRepoName

\* provider.ValidateRepositoryName: a name that is taken is rejected
ValidateRepositoryName(owner, str) ==
    IF str \in TakenNames THEN "ValidationRejected" ELSE NoErr

\* Whether the validator of GetRepoName asks the provider about str.
AsksProvider(str, allowExistingRepo) ==
    TrimSpace(str) # <<>> /\ ~allowExistingRepo

\* The validator compares with the empty string without trimming.
ValidatorNoTrim(str, allowExistingRepo, owner) ==
    IF str = <<>>
    THEN "RepositoryNameRequired"
    ELSE IF allowExistingRepo THEN NoErr ELSE ValidateRepositoryName(owner, str)

\* The validator of the repository-name prompt
Validator(str, allowExistingRepo, owner) ==
    IF TrimSpace(str) = <<>>
    THEN "RepositoryNameRequired"
    ELSE IF allowExistingRepo THEN NoErr ELSE ValidateRepositoryName(owner, str)

\* survey.Input: an empty line stands for the default
InputAnswer(typed, default) == IF typed = <<>> THEN default ELSE typed

\* Gitter.RepoName: the qualified name of the repository
RepoNameOf(owner, repoName) ==
    IF owner = "" THEN repoName ELSE <<owner, "/">> \o repoName

\* The branches of the stages
ServerSupplied == args.server # 0

\* The server is looked up by the URL of the options even when it is empty.
UsesServerURLAlways == TRUE

UsesServerURL == repoOptions.ServerURL # ""

\* The credential of the caller is not looked at.
UserAuthSuppliedIgnored == FALSE

UserAuthSupplied == args.userAuth # 0

UsesUsername == repoOptions.Username # ""

UsesOwner == repoOptions.Owner # ""

\* The name of the options is never looked at.
UsesRepoNameNever == FALSE

UsesRepoName == repoOptions.RepoName # <<>>

\* Whether a stage that has to choose asks the user.
ServerPrompts == ~args.batchMode

UserAuthPrompts == ~args.batchMode

\* The owner stage asks the user whatever the mode.
OwnerPromptsAlways == TRUE

OwnerPrompts == ~args.batchMode

RepoNamePrompts == ~args.batchMode

----------------------------------------------------------------------------
(* The invocation, stage by stage *)

Fail(e) ==
    /\ pc' = "done"
    /\ ret' = [result |-> <<>>, err |-> e]

Goto(p) ==
    /\ pc' = p
    /\ UNCHANGED ret

\* GetRepoName returned a name and no error: err is assigned nil.
GotoAfterGetRepoName(p) ==
    /\ pc' = p
    /\ ret' = [ret EXCEPT !.err = NoErr]

Called(ops) == trace' = trace \o ops

\* The options are left as the caller passed them.
OptionsKept(options, server) == options

\* The URL of the server chosen in batch mode or by the user is recorded in
\* the options of the caller.
RecordServerURL(options, server) == [options EXCEPT !.ServerURL = server.URL]

\* Server stage
ServerStage ==
    /\ pc = "server"
    /\ UNCHANGED <<args, callNo, start, passed, prev, answers>>
    /\ \/ /\ ServerSupplied
          /\ loc' = [loc EXCEPT !.server = args.server]
          /\ Goto("cred")
          /\ UNCHANGED <<srv, ua, config, saved, repoOptions, trace>>
       \/ /\ ~ServerSupplied
          /\ UsesServerURL
          /\ LET r == GetOrCreateServer(Store, repoOptions.ServerURL)
             IN  /\ SetStore(r.st)
                 /\ loc' = [loc EXCEPT !.server = r.p]
          /\ Called(<<"GetOrCreateServer">>)
          /\ Goto("cred")
          /\ UNCHANGED repoOptions
       \/ /\ ~ServerSupplied
          /\ ~UsesServerURL
          /\ ~ServerPrompts
          /\ Len(config.Servers) = 0
          /\ Fail("NoServersConfigured")
          /\ UNCHANGED <<srv, ua, config, saved, repoOptions, loc, trace>>
       \/ /\ ~ServerSupplied
          /\ ~UsesServerURL
          /\ ~ServerPrompts
          /\ Len(config.Servers) # 0
          /\ LET s == BatchServer(Store)
             IN  /\ loc' = [loc EXCEPT !.server = s]
                 /\ repoOptions' = RecordServerURL(repoOptions, srv[s])
          /\ Goto("cred")
          /\ UNCHANGED <<srv, ua, config, saved, trace>>
       \/ /\ ~ServerSupplied
          /\ ~UsesServerURL
          /\ ServerPrompts
          /\ Called(<<"PickServer">>)
          /\ Fail("PromptCancelled")
          /\ UNCHANGED <<srv, ua, config, saved, repoOptions, loc>>
       \/ /\ ~ServerSupplied
          /\ ~UsesServerURL
          /\ ServerPrompts
          /\ Called(<<"PickServer">>)
          /\ \E i \in 1..Len(config.Servers) :
                LET s == config.Servers[i]
                IN  /\ loc' = [loc EXCEPT !.server = s]
                    /\ repoOptions' = RecordServerURL(repoOptions, srv[s])
          /\ Goto("cred")
          /\ UNCHANGED <<srv, ua, config, saved>>

\* What the user may type at the user-name prompt.
TypedUsernames == {"alice", "carol"}

\* Credential stage: the selection of the credential
CredentialStage ==
    /\ pc = "cred"
    /\ UNCHANGED <<args, callNo, start, passed, prev, answers, repoOptions>>
    /\ LET url == srv[loc.server].URL
       IN
       \/ /\ UserAuthSupplied
          /\ loc' = [loc EXCEPT !.userAuth = args.userAuth]
          /\ Goto("auth")
          /\ UNCHANGED <<srv, ua, config, saved, trace>>
       \/ /\ ~UserAuthSupplied
          /\ UsesUsername
          /\ LET r == GetOrCreateUserAuth(Store, url, repoOptions.Username)
             IN  /\ SetStore(r.st)
                 /\ loc' = [loc EXCEPT !.userAuth = r.p]
          /\ Called(<<"GetOrCreateUserAuth">>)
          /\ Goto("auth")
       \/ /\ ~UserAuthSupplied
          /\ ~UsesUsername
          /\ ~UserAuthPrompts
          /\ Len(srv[loc.server].Users) = 0
          /\ Fail("NoCredentialsConfigured")
          /\ UNCHANGED <<srv, ua, config, saved, loc, trace>>
       \/ /\ ~UserAuthSupplied
          /\ ~UsesUsername
          /\ ~UserAuthPrompts
          /\ Len(srv[loc.server].Users) # 0
          /\ loc' = [loc EXCEPT !.userAuth = BatchUserAuth(Store, loc.server)]
          /\ Called(IF LooksUpCurrentUser(Store, loc.server)
                    THEN <<"FindUserAuth">> ELSE <<>>)
          /\ Goto("auth")
          /\ UNCHANGED <<srv, ua, config, saved>>
       \/ /\ ~UserAuthSupplied
          /\ ~UsesUsername
          /\ UserAuthPrompts
          /\ Called(<<"PickServerUserAuth">>)
          /\ Fail("PromptCancelled")
          /\ UNCHANGED <<srv, ua, config, saved, loc>>
       \/ /\ ~UserAuthSupplied
          /\ ~UsesUsername
          /\ UserAuthPrompts
          /\ Called(<<"PickServerUserAuth">>)
          /\ \E typed \in TypedUsernames :
                LET r == GetOrCreateUserAuth(Store, url, typed)
                IN  /\ SetStore(r.st)
                    /\ loc' = [loc EXCEPT !.userAuth = r.p]
          /\ Goto("auth")

\* What the user may enter as the token in the edit flow.
TypedTokens == {"", "t3"}

\* AuthConfig.EditUserAuth: in batch mode the credential is left as it is and
\* nothing is asked; otherwise the user is asked for the token.
EditOutcomes(u, batchMode) ==
    IF batchMode THEN {u} ELSE {[u EXCEPT !.ApiToken = t] : t \in TypedTokens}

EditOps(batchMode) ==
    IF batchMode THEN <<"EditUserAuth">> ELSE <<"EditUserAuth", "EditPrompt">>

\* What EditUserAuth may return: nothing is asked in batch mode, and the
\* user may cancel the prompt otherwise.
EditErrs(batchMode) == IF batchMode THEN {NoErr} ELSE {NoErr, "PromptCancelled"}

\* What SaveUserAuth may return.
SaveErrs == {NoErr, "StoreWriteFailed"}

\* The credential is checked before it is saved, and not saved when invalid.
EditFlowChecksFirst(batchMode, editErr, edited, saveErr) ==
    IF editErr # NoErr
    THEN [ops |-> EditOps(batchMode), write |-> FALSE, err |-> editErr]
    ELSE IF IsInvalid(edited)
    THEN [ops |-> EditOps(batchMode), write |-> FALSE,
          err |-> "IncompleteAuthentication"]
    ELSE IF saveErr # NoErr
    THEN [ops |-> EditOps(batchMode) \o <<"SaveUserAuth">>, write |-> FALSE,
          err |-> "PersistenceFailed"]
    ELSE [ops |-> EditOps(batchMode) \o <<"SaveUserAuth">>, write |-> TRUE,
          err |-> NoErr]

\* The edit flow without the check of the credential after it is saved.
EditFlowSkipsValidity(batchMode, editErr, edited, saveErr) ==
    IF editErr # NoErr
    THEN [ops |-> EditOps(batchMode), write |-> FALSE, err |-> editErr]
    ELSE IF saveErr # NoErr
    THEN [ops |-> EditOps(batchMode) \o <<"SaveUserAuth">>, write |-> FALSE,
          err |-> "PersistenceFailed"]
    ELSE [ops |-> EditOps(batchMode) \o <<"SaveUserAuth">>, write |-> TRUE,
          err |-> NoErr]

\* The edit flow where a failure of SaveUserAuth is not looked at.
EditFlowIgnoresSaveError(batchMode, editErr, edited, saveErr) ==
    IF editErr # NoErr
    THEN [ops |-> EditOps(batchMode), write |-> FALSE, err |-> editErr]
    ELSE IF IsInvalid(edited)
    THEN [ops |-> EditOps(batchMode) \o <<"SaveUserAuth">>,
          write |-> (saveErr = NoErr), err |-> "IncompleteAuthentication"]
    ELSE [ops |-> EditOps(batchMode) \o <<"SaveUserAuth">>,
          write |-> (saveErr = NoErr), err |-> NoErr]

\* The edit flow after the answers of its collaborators: EditUserAuth
\* returned editErr and left the credential as edited, SaveUserAuth returns
\* saveErr.  ops are the calls made, write tells whether the store was
\* written, err is the error the invocation ends with (NoErr: it goes on).
EditFlow(batchMode, editErr, edited, saveErr) ==
    IF editErr # NoErr
    THEN [ops |-> EditOps(batchMode), write |-> FALSE, err |-> editErr]
    ELSE IF saveErr # NoErr
    THEN [ops |-> EditOps(batchMode) \o <<"SaveUserAuth">>, write |-> FALSE,
          err |-> "PersistenceFailed"]
    ELSE IF IsInvalid(edited)
    THEN [ops |-> EditOps(batchMode) \o <<"SaveUserAuth">>, write |-> TRUE,
          err |-> "IncompleteAuthentication"]
    ELSE [ops |-> EditOps(batchMode) \o <<"SaveUserAuth">>, write |-> TRUE,
          err |-> NoErr]

\* Credential stage: the token of the options and the edit flow
EditStage ==
    /\ pc = "auth"
    /\ UNCHANGED <<args, callNo, start, passed, prev, answers, repoOptions, srv, config, loc>>
    /\ LET p == loc.userAuth
           url == srv[loc.server].URL
           applied == ApplyToken(ua[p], repoOptions.ApiToken)
       IN
       \/ /\ ~IsInvalid(applied)
          /\ ua' = [ua EXCEPT ![p] = applied]
          /\ Goto("provider")
          /\ UNCHANGED <<saved, trace>>
       \/ /\ IsInvalid(applied)
          /\ \E editErr \in EditErrs(args.batchMode), saveErr \in SaveErrs :
             \E edited \in IF editErr = NoErr
                           THEN EditOutcomes(applied, args.batchMode)
                           ELSE {applied} :
                LET f == EditFlow(args.batchMode, editErr, edited, saveErr)
                IN  /\ Called(f.ops)
                    /\ ua' = [ua EXCEPT ![p] = edited]
                    /\ saved' = IF f.write
                                THEN Append(saved, [url |-> url, user |-> edited])
                                ELSE saved
                    /\ IF f.err # NoErr THEN Fail(f.err) ELSE Goto("provider")

\* Provider binding
ProviderStage ==
    /\ pc = "provider"
    /\ UNCHANGED <<args, callNo, start, passed, prev, answers, repoOptions, srv, ua,
                   config, saved>>
    /\ Called(<<"CreateProvider">>)
    /\ \/ /\ loc' = [loc EXCEPT !.gitUsername = ua[loc.userAuth].Username]
          /\ Fail("ProviderConstructionError")
       \/ /\ loc' = [loc EXCEPT !.gitUsername = ua[loc.userAuth].Username,
                                !.provider = callNo]
          /\ Goto("owner")

\* The organisations the user may pick; "" is none.
Organisations == {"", "acme"}

\* The error of PickOrganisation is dropped and the invocation goes on.
PickOrganisationErrorDropped ==
    /\ ret' = [ret EXCEPT !.err = "PromptCancelled"]
    /\ pc' = "name"
    /\ UNCHANGED loc

\* PickOrganisation returned an error: GetOwner and the invocation return it.
PickOrganisationFailed ==
    /\ Fail("PromptCancelled")
    /\ UNCHANGED loc

\* Owner stage
OwnerStage ==
    /\ pc = "owner"
    /\ UNCHANGED <<args, callNo, start, passed, prev, answers, repoOptions, srv, ua,
                   config, saved>>
    /\ \/ /\ UsesOwner
          /\ loc' = [loc EXCEPT !.owner = repoOptions.Owner]
          /\ Goto("name")
          /\ UNCHANGED trace
       \/ /\ ~UsesOwner
          /\ ~OwnerPrompts
          /\ loc' = [loc EXCEPT !.owner = GetOwner(args.batchMode, loc.gitUsername, "")]
          /\ Goto("name")
          /\ UNCHANGED trace
       \/ /\ ~UsesOwner
          /\ OwnerPrompts
          /\ Called(<<"PickOrganisation">>)
          /\ PickOrganisationFailed
       \/ /\ ~UsesOwner
          /\ OwnerPrompts
          /\ Called(<<"PickOrganisation">>)
          /\ \E org \in Organisations :
                loc' = [loc EXCEPT !.org = org,
                                   !.owner = GetOwner(args.batchMode, loc.gitUsername, org)]
          /\ Goto("name")

\* Repository name stage, up to the prompt
NameStage ==
    /\ pc = "name"
    /\ UNCHANGED <<args, callNo, start, passed, prev, answers, repoOptions, srv, ua,
                   config, saved>>
    /\ \/ /\ UsesRepoName
          /\ loc' = [loc EXCEPT !.repoName = repoOptions.RepoName]
          /\ Goto("assemble")
          /\ UNCHANGED trace
       \/ /\ ~UsesRepoName
          /\ ~RepoNamePrompts
          /\ loc' = [loc EXCEPT !.repoName = BatchRepoName(args.defaultRepoName)]
          /\ GotoAfterGetRepoName("assemble")
          /\ UNCHANGED trace
       \/ /\ ~UsesRepoName
          /\ RepoNamePrompts
          /\ Called(<<"AskOne">>)
          /\ Goto("ask")
          /\ UNCHANGED loc

\* One answer to the repository-name prompt: survey.AskOne asks again until
\* the validator accepts the answer or the user cancels.
AskOne ==
    /\ pc = "ask"
    /\ UNCHANGED <<args, callNo, start, passed, prev, repoOptions, srv, ua, config, saved>>
    /\ \/ /\ Fail("PromptCancelled")
          /\ UNCHANGED <<loc, trace, answers>>
       \/ /\ Len(answers) < MaxAnswers
          /\ \E typed \in TypedNames :
                LET ans == InputAnswer(typed, args.defaultRepoName)
                    e == Validator(ans, args.allowExistingRepo, loc.owner)
                IN  /\ answers' = Append(answers, ans)
                    /\ Called(IF AsksProvider(ans, args.allowExistingRepo)
                              THEN <<"ValidateRepositoryName">> ELSE <<>>)
                    /\ IF e # NoErr
                       THEN /\ pc' = "ask"
                            /\ UNCHANGED <<ret, loc>>
                       ELSE /\ loc' = [loc EXCEPT !.repoName = ans]
                            /\ IF ans = <<>>
                               THEN Fail("RepositoryNameRequired")
                               ELSE GotoAfterGetRepoName("assemble")

\* The CreateRepoData the invocation returns
Result ==
    [Organisation |-> loc.owner,
     RepoName |-> loc.repoName,
     FullName |-> RepoNameOf(loc.owner, loc.repoName),
     PrivateRepo |-> repoOptions.Private,
     User |-> loc.userAuth,
     GitProvider |-> loc.provider,
     Server |-> loc.server]

\* Assembly: the result is returned with err as it stands, which is nil
\* when every stage returned its error.
Assemble ==
    /\ pc = "assemble"
    /\ UNCHANGED <<args, callNo, start, passed, prev, answers, repoOptions, srv, ua,
                   config, saved, loc>>
    /\ Called(<<"RepoName">>)
    /\ pc' = "done"
    /\ ret' = [result |-> <<Result>>, err |-> ret.err]

\* The inputs name the server, the credential, the owner and the repository.
FullySpecified ==
    /\ args.server # 0
    /\ args.userAuth # 0
    /\ repoOptions.Owner # ""
    /\ repoOptions.RepoName # <<>>

\* The caller invokes the resolver again with the same arguments.
CallAgain ==
    /\ pc = "done"
    /\ callNo < MaxCalls
    /\ FullySpecified
    /\ prev' = <<[start |-> start, ret |-> ret, end |-> Store]>>
    /\ start' = Store
    /\ passed' = repoOptions
    /\ callNo' = callNo + 1
    /\ loc' = NoLocals
    /\ pc' = "server"
    /\ ret' = NoReturn
    /\ trace' = <<>>
    /\ answers' = <<>>
    /\ UNCHANGED <<srv, ua, config, saved, args, repoOptions>>

Next ==
    \/ ServerStage
    \/ CredentialStage
    \/ EditStage
    \/ ProviderStage
    \/ OwnerStage
    \/ NameStage
    \/ AskOne
    \/ Assemble
    \/ CallAgain

Spec == Init /\ [][Next]_vars

----------------------------------------------------------------------------
(* What the claims speak of *)

Range(seq) == {seq[i] : i \in 1..Len(seq)}

\* What the caller gave.
ServerGiven == args.server # 0

UserAuthGiven == args.userAuth # 0

ServerURLGiven == repoOptions.ServerURL # ""

UsernameGiven == repoOptions.Username # ""

OwnerGiven == repoOptions.Owner # ""

RepoNameGiven == repoOptions.RepoName # <<>>

\* The inputs name the server, the credential, the owner and the repository.
AllGiven == ServerGiven /\ UserAuthGiven /\ OwnerGiven /\ RepoNameGiven

Done == pc = "done"

Succeeded == Done /\ ret.err = NoErr

Failed == Done /\ ret.err # NoErr

\* The calls that ask the user something.
PromptOps == {"PickServer", "PickServerUserAuth", "EditPrompt", "PickOrganisation", "AskOne"}

\* The calls that write the store.
StoreWriteOps == {"SaveUserAuth"}

\* The store st has a registered server that has a credential with a token.
HasValidCredential(st) ==
    \E i \in 1..Len(st.config.Servers) :
        LET users == st.srv[st.config.Servers[i]].Users
        IN  \E j \in 1..Len(users) : ~IsInvalid(st.ua[users[j]])

\* The stage a collaborator call belongs to.
StageOf(op) ==
    CASE op \in {"GetOrCreateServer", "PickServer"} -> 1
      [] op \in {"GetOrCreateUserAuth", "FindUserAuth", "PickServerUserAuth",
                 "EditUserAuth", "EditPrompt", "SaveUserAuth"} -> 2
      [] op = "CreateProvider" -> 3
      [] op = "PickOrganisation" -> 4
      [] op \in {"AskOne", "ValidateRepositoryName"} -> 5
      [] op = "RepoName" -> 6

\* The stage in which a failed invocation ended: a cancelled prompt is the
\* last call made, every other error belongs to one stage.
ErrStage ==
    CASE ret.err = "NoServersConfigured" -> 1
      [] ret.err \in {"NoCredentialsConfigured", "PersistenceFailed",
                      "IncompleteAuthentication"} -> 2
      [] ret.err = "ProviderConstructionError" -> 3
      [] ret.err = "RepositoryNameRequired" -> 5
      [] ret.err = "PromptCancelled" -> StageOf(trace[Len(trace)])

----------------------------------------------------------------------------
(* C1 *)

C1Case ==
    /\ args.batchMode
    /\ Len(start.config.Servers) >= 1
    /\ HasValidCredential(start)

\* C1: a batch invocation against a store with at least one server and at
\* least one valid credential makes no call that asks the user: no
\* PickServer, no PickServerUserAuth, no edit prompt, no PickOrganisation and
\* no repository-name prompt, at any point of the resolution.
C1_BatchNeverPrompts ==
    C1Case => (Range(trace) \cap PromptOps = {} /\ pc # "ask")

\* A batch invocation that had to choose the server, the credential, the
\* owner and the name, and succeeded.
C1_Witness ==
    /\ C1Case
    /\ Succeeded
    /\ ~ServerGiven /\ ~UserAuthGiven /\ ~UsernameGiven
    /\ ~OwnerGiven /\ ~RepoNameGiven

----------------------------------------------------------------------------
(* C2 *)

\* C2: on success Organisation, RepoName and FullName are non-empty and User,
\* Server and GitProvider are non-nil; on an error the result is nil.
C2_ResultFullyPopulated ==
    /\ Succeeded =>
          /\ ret.result # <<>>
          /\ ret.result[1].Organisation # ""
          /\ ret.result[1].RepoName # <<>>
          /\ ret.result[1].FullName # <<>>
          /\ ret.result[1].User # 0
          /\ ret.result[1].Server # 0
          /\ ret.result[1].GitProvider # 0
    /\ Failed => ret.result = <<>>

----------------------------------------------------------------------------
(* C3 *)

\* C3: the calls of an invocation are made in the order of the stages, and
\* an invocation that ended with an error made no call of a later stage than
\* the one that failed, computed nothing of a later stage, and returned no
\* result.
C3_StagesInOrderAndShortCircuit ==
    /\ \A i, j \in 1..Len(trace) : i < j => StageOf(trace[i]) <= StageOf(trace[j])
    /\ Failed =>
          /\ ret.result = <<>>
          /\ \A i \in 1..Len(trace) : StageOf(trace[i]) <= ErrStage
          /\ ErrStage < 3 => loc.provider = 0
          /\ ErrStage < 5 => (loc.repoName = <<>> /\ answers = <<>>)
          /\ ErrStage < 4 => (loc.owner = "" /\ loc.org = "")

\* The organisation pick was cancelled after the earlier stages had run.
C3_Witness ==
    /\ Failed
    /\ ret.err = "PromptCancelled"
    /\ trace[Len(trace)] = "PickOrganisation"
    /\ "CreateProvider" \in Range(trace)

----------------------------------------------------------------------------
(* C4 *)

C4Case ==
    /\ RepoNameGiven
    /\ \/ args.allowExistingRepo
       \/ Validator(repoOptions.RepoName, FALSE, loc.owner) = NoErr

\* C4: when the options name the repository and the name passes validation
\* (or an existing repository is allowed), a successful result has exactly
\* that RepoName, in batch and in interactive mode, and the invocation
\* neither asked for the name nor validated one.
C4_OptionsRepoNameUsed ==
    (C4Case /\ Succeeded) =>
        /\ ret.result[1].RepoName = repoOptions.RepoName
        /\ Range(trace) \cap {"AskOne", "ValidateRepositoryName"} = {}
        /\ answers = <<>>

\* An interactive success with the name of the options, which differs from
\* the default name.
C4_Witness ==
    /\ C4Case
    /\ Succeeded
    /\ ~args.batchMode
    /\ args.defaultRepoName # <<>>
    /\ ret.result[1].RepoName = <<"b">>

----------------------------------------------------------------------------
(* C5 *)

NoStoreWrite ==
    /\ Store = start
    /\ Range(trace) \cap StoreWriteOps = {}

\* C5 as claimed: a batch invocation against a store with no servers ends
\* with NoServersConfigured and writes nothing to the store.
C5_NoServersAlwaysFails ==
    (args.batchMode /\ Len(start.config.Servers) = 0) =>
        /\ NoStoreWrite
        /\ Done => ret.err = "NoServersConfigured"

C5Case ==
    /\ args.batchMode
    /\ Len(start.config.Servers) = 0
    /\ ~ServerGiven
    /\ ~ServerURLGiven

\* C5 amended: a batch invocation that is given no server and no server URL
\* against a store with no servers ends in the server stage with
\* NoServersConfigured; it creates no server and no credential and does not
\* call SaveUserAuth.
C5_NoServersFailsWhenUnspecified ==
    C5Case =>
        /\ NoStoreWrite
        /\ pc \in {"server", "done"}
        /\ Done => (ret.err = "NoServersConfigured" /\ ret.result = <<>>)

C5_Witness ==
    /\ C5Case
    /\ Failed
    /\ ret.err = "NoServersConfigured"

----------------------------------------------------------------------------
(* C6 *)

C6Case == args.batchMode /\ ~RepoNameGiven

\* C6: in batch mode without a name in the options the resolved name is the
\* default name when that is non-empty and "dummy" when it is empty; the
\* name stage does not ask and does not fail.
C6_BatchNameDefaultOrDummy ==
    C6Case =>
        /\ pc # "ask"
        /\ "AskOne" \notin Range(trace)
        /\ Failed => ErrStage < 5
        /\ (pc = "assemble" \/ Succeeded) =>
              loc.repoName = IF args.defaultRepoName # <<>>
                             THEN args.defaultRepoName
                             ELSE Dummy
        /\ Succeeded => ret.result[1].RepoName = loc.repoName

\* A batch success without a default name.
C6_Witness ==
    /\ C6Case
    /\ Succeeded
    /\ args.defaultRepoName = <<>>
    /\ ret.result[1].RepoName = Dummy

----------------------------------------------------------------------------
(* C7 *)

Blank(str) == \A i \in 1..Len(str) : str[i] = " "

\* The invocation asked for the repository name.
Asked == "AskOne" \in Range(trace)

\* C7: in interactive mode a blank or whitespace-only answer to the
\* repository-name prompt is rejected and asked again: while it is the last
\* answer the invocation is still at the prompt (or the user cancelled), it
\* is never the resolved name, the invocation does not fail because of it,
\* and the RepoName of a result that was asked for is never blank.
C7_BlankAnswerRejected ==
    /\ \A i \in 1..Len(answers) :
          Blank(answers[i]) =>
             /\ (pc = "assemble" \/ Succeeded) => loc.repoName # answers[i]
             /\ i = Len(answers) =>
                   (pc = "ask" \/ (Failed /\ ret.err = "PromptCancelled"))
    /\ ret.err # "RepositoryNameRequired"
    /\ (Asked /\ Succeeded) => ~Blank(ret.result[1].RepoName)

\* The user answered with blanks, was asked again, and the name given then
\* was returned.
C7_Witness ==
    /\ Succeeded
    /\ Len(answers) = 2
    /\ answers[1] = <<" ">>
    /\ ret.result[1].RepoName = answers[2]

----------------------------------------------------------------------------
(* C8 *)

\* Two results agree in every field but the provider handle.
SameResult(r1, r2) ==
    /\ r1.Organisation = r2.Organisation
    /\ r1.RepoName = r2.RepoName
    /\ r1.FullName = r2.FullName
    /\ r1.PrivateRepo = r2.PrivateRepo
    /\ r1.User = r2.User
    /\ r1.Server = r2.Server

\* The invocation repeats one that succeeded, and succeeded too.
BothSucceeded ==
    /\ callNo > 1
    /\ Succeeded
    /\ prev[1].ret.err = NoErr
    /\ AllGiven

Idempotent ==
    /\ SameResult(prev[1].ret.result[1], ret.result[1])
    /\ prev[1].end.ua[ret.result[1].User] = ua[ret.result[1].User]
    /\ prev[1].end.srv[ret.result[1].Server] = srv[ret.result[1].Server]
    /\ start = prev[1].start

\* C8 as claimed: two invocations in sequence with the same fully specified
\* inputs return results equal in every field but the provider handle, and
\* the second finds the store as the first found it.
C8_IdempotentWhenFullySpecified == BothSucceeded => Idempotent

\* C8 amended: the same, when the credential supplied is valid as the first
\* invocation starts.
C8_IdempotentWhenCredentialValid ==
    (BothSucceeded /\ ~IsInvalid(prev[1].start.ua[args.userAuth])) => Idempotent

C8_Witness ==
    /\ BothSucceeded
    /\ ~IsInvalid(prev[1].start.ua[args.userAuth])
    /\ repoOptions.ApiToken # ""
    /\ ret.result[1].GitProvider # prev[1].ret.result[1].GitProvider

----------------------------------------------------------------------------
(* C9 *)

\* C9: the owner of a result is the Owner of the options when that is set;
\* else, in batch mode, the user name of the resolved credential; else the
\* organisation the user picked, or that user name when none was picked.  So
\* a batch invocation with Username "alice", a RepoName and no Owner returns
\* Organisation "alice", that RepoName and the Private flag of the options.
C9_OwnerResolution ==
    Succeeded =>
        LET r == ret.result[1]
            username == ua[r.User].Username
        IN  /\ r.Organisation =
                  IF OwnerGiven THEN repoOptions.Owner
                  ELSE IF args.batchMode THEN username
                  ELSE IF loc.org # "" THEN loc.org
                  ELSE username
            /\ r.PrivateRepo = repoOptions.Private
            /\ (/\ args.batchMode
                /\ ~UserAuthGiven
                /\ repoOptions.Username = "alice"
                /\ RepoNameGiven
                /\ ~OwnerGiven) =>
                   (r.Organisation = "alice" /\ r.RepoName = repoOptions.RepoName)

\* An interactive success in which no organisation was picked.
C9_Witness ==
    /\ Succeeded
    /\ ~args.batchMode
    /\ ~OwnerGiven
    /\ "PickOrganisation" \in Range(trace)
    /\ loc.org = ""
    /\ ret.result[1].Organisation = "alice"

----------------------------------------------------------------------------
(* C10 *)

EditRan == "EditUserAuth" \in Range(trace)

\* EditUserAuth returned an error: the prompt of the edit flow was cancelled.
EditCancelled ==
    /\ Failed
    /\ ret.err = "PromptCancelled"
    /\ trace[Len(trace)] = "EditPrompt"

\* C10 as claimed: whenever the edit flow ran, SaveUserAuth was called in
\* that invocation.
C10_EditAlwaysSaves ==
    (pc # "auth" /\ EditRan) => "SaveUserAuth" \in Range(trace)

\* C10 amended: whenever the edit flow ran and EditUserAuth returned without
\* an error, SaveUserAuth was called in that invocation, also when the
\* credential is still invalid and the invocation fails; when EditUserAuth
\* returned an error SaveUserAuth was not called.
C10_EditSavesUnlessEditFails ==
    (pc # "auth" /\ EditRan) =>
        /\ ~EditCancelled => "SaveUserAuth" \in Range(trace)
        /\ EditCancelled => ("SaveUserAuth" \notin Range(trace) /\ saved = start.saved)
        /\ (Failed /\ ret.err = "IncompleteAuthentication") =>
              (Len(saved) = Len(start.saved) + 1 /\ IsInvalid(saved[Len(saved)].user))

\* The edit flow ran, the credential was saved, and the invocation failed
\* because the credential was still invalid.
C10_Witness ==
    /\ EditRan
    /\ Failed
    /\ ret.err = "IncompleteAuthentication"
    /\ "SaveUserAuth" \in Range(trace)

----------------------------------------------------------------------------
(* C11 *)

\* The invocation has passed the credential stage.
PastCredentialStage ==
    \/ pc \in {"provider", "owner", "name", "ask", "assemble"}
    \/ "CreateProvider" \in Range(trace)

\* C11: the provider is constructed only for a valid credential: whenever
\* the invocation is past the credential stage its credential is valid; an
\* invocation that ends with IncompleteAuthentication went through the edit
\* flow, has an invalid credential and constructed no provider; the User of
\* every successful result is valid.
C11_ProviderOnlyForValidCredential ==
    /\ PastCredentialStage =>
          (loc.userAuth # 0 /\ ~IsInvalid(ua[loc.userAuth]))
    /\ (Failed /\ ret.err = "IncompleteAuthentication") =>
          /\ IsInvalid(ua[loc.userAuth])
          /\ "EditUserAuth" \in Range(trace)
          /\ "CreateProvider" \notin Range(trace)
          /\ ret.result = <<>>
    /\ (Done /\ "EditUserAuth" \in Range(trace) /\ IsInvalid(ua[loc.userAuth])
             /\ ret.err \notin {"PromptCancelled", "PersistenceFailed"}) =>
          ret.err = "IncompleteAuthentication"
    /\ Succeeded => ~IsInvalid(ua[ret.result[1].User])

\* An interactive invocation whose user left the token empty in the edit
\* flow ended with IncompleteAuthentication.
C11_Witness ==
    /\ Failed
    /\ ret.err = "IncompleteAuthentication"
    /\ ~args.batchMode
    /\ "EditPrompt" \in Range(trace)
    /\ IsInvalid(ua[loc.userAuth])

----------------------------------------------------------------------------
(* C12 *)

\* The fields of GitRepositoryOptions other than ServerURL.
OtherOptionFields ==
    {"ServerKind", "Username", "ApiToken", "Owner", "RepoName", "Private"}

\* The invocation chose the server itself: none was supplied and the
\* options named no server URL.
ServerChosen ==
    /\ ~ServerGiven
    /\ passed.ServerURL = ""
    /\ loc.server # 0

\* C12 as claimed: the options are read-only: every field has the value the
\* caller passed, at any point of any invocation.
C12_OptionsNeverWritten == repoOptions = passed

\* C12 amended: every field of the options other than ServerURL has the
\* value the caller passed; ServerURL has it too unless the invocation chose
\* the server itself (no server supplied, no ServerURL given), and then it
\* holds the URL of the chosen server from the server stage on.
C12_OnlyServerURLWritten ==
    /\ \A f \in OtherOptionFields : repoOptions[f] = passed[f]
    /\ ~ServerChosen => repoOptions.ServerURL = passed.ServerURL
    /\ ServerChosen => repoOptions.ServerURL = srv[loc.server].URL

\* A batch invocation without a server and without a ServerURL succeeded
\* and left the URL of the server it selected in the options.
C12_Witness ==
    /\ Succeeded
    /\ args.batchMode
    /\ ServerChosen
    /\ passed.ServerURL = ""
    /\ repoOptions.ServerURL = "u2"

----------------------------------------------------------------------------
(* C13 *)

\* The server stage ended with a server.
ServerResolved == pc # "server" /\ loc.server # 0

\* C13: once the server stage has resolved a server, ServerURL of the
\* options is the URL of that server, however it was obtained (supplied by
\* the caller, looked up or created from ServerURL, selected in batch mode,
\* or picked by the user).
C13_ServerURLAlwaysRecorded ==
    ServerResolved => repoOptions.ServerURL = srv[loc.server].URL

----------------------------------------------------------------------------
(* C14 *)

\* The name stage of a batch invocation that must not take an existing
\* repository has settled on a name that the provider rejects.
BatchNameRejected ==
    /\ args.batchMode
    /\ ~args.allowExistingRepo
    /\ pc \in {"assemble", "done"}
    /\ loc.repoName # <<>>
    /\ ValidateRepositoryName(loc.owner, loc.repoName) # NoErr

\* C14: in batch mode a repository name that the validation of the provider
\* rejects (a name already taken when allowExistingRepo is false) makes the
\* invocation fail with ValidationRejected; no result is assembled from it.
C14_BatchRejectedNameFails ==
    BatchNameRejected =>
        (pc = "done" /\ ret.err = "ValidationRejected" /\ ret.result = <<>>)

\* A batch invocation without a name in the options and without a default
\* returned the placeholder name, which is taken, with no error.
C14_BatchTakenNameReturned ==
    /\ BatchNameRejected
    /\ ~RepoNameGiven
    /\ Succeeded
    /\ ret.result[1].RepoName = Dummy
    /\ "ValidateRepositoryName" \notin Range(trace)

----------------------------------------------------------------------------
(* C15 *)

\* The calls that look up, create or pick a server or a credential.
LookupOps ==
    {"GetOrCreateServer", "PickServer", "GetOrCreateUserAuth", "FindUserAuth",
     "PickServerUserAuth"}

BothGiven == ServerGiven /\ UserAuthGiven

\* The supplied objects are the ones the invocation works with and returns,
\* and none was looked up, created or picked.
SuppliedUsed ==
    /\ pc # "server" => loc.server = args.server
    /\ pc \notin {"server", "cred"} => loc.userAuth = args.userAuth
    /\ Succeeded => /\ ret.result[1].Server = args.server
                    /\ ret.result[1].User = args.userAuth
    /\ Range(trace) \cap LookupOps = {}
    /\ Len(srv) = Len(start.srv)
    /\ Len(ua) = Len(start.ua)

\* C15 as claimed: a supplied server and a supplied credential are used and
\* returned, nothing is looked up for them, and their fields are as the
\* caller passed them.
C15_SuppliedNeverModified ==
    BothGiven =>
        /\ SuppliedUsed
        /\ srv[args.server] = start.srv[args.server]
        /\ ua[args.userAuth] = start.ua[args.userAuth]

\* C15 amended: a supplied server and a supplied credential are used and
\* returned and nothing is looked up for them; the fields of the server are
\* as the caller passed them, and so are the fields of the credential when
\* it was valid; of a supplied credential that was invalid only the token
\* may differ (set from ApiToken of the options or in the edit flow).
C15_SuppliedValidNeverModified ==
    BothGiven =>
        /\ SuppliedUsed
        /\ srv[args.server] = start.srv[args.server]
        /\ ua[args.userAuth].Username = start.ua[args.userAuth].Username
        /\ ~IsInvalid(start.ua[args.userAuth]) =>
              ua[args.userAuth] = start.ua[args.userAuth]
        /\ (pc \notin {"server", "cred", "auth"}
              /\ IsInvalid(start.ua[args.userAuth])
              /\ repoOptions.ApiToken # "") =>
              ua[args.userAuth].ApiToken = repoOptions.ApiToken

\* An invocation with a supplied server and a supplied valid credential
\* succeeded and returned both, untouched.
C15_Witness ==
    /\ BothGiven
    /\ Succeeded
    /\ ~IsInvalid(start.ua[args.userAuth])
    /\ ret.result[1].Server = args.server
    /\ ret.result[1].User = args.userAuth
    /\ ua[args.userAuth] = start.ua[args.userAuth]
    /\ repoOptions.ApiToken # ""

----------------------------------------------------------------------------
(* C16 *)

\* The records this invocation created on the fly.
CreatedServers == (Len(start.srv) + 1)..Len(srv)

CreatedUserAuths == (Len(start.ua) + 1)..Len(ua)

\* What this invocation has written to the persistent store.
WrittenNow == {saved[k] : k \in (Len(start.saved) + 1)..Len(saved)}

\* The invocation has reached the construction of the provider.
AtProvider == pc = "provider" \/ "CreateProvider" \in Range(trace)

\* C16: no invocation reaches the construction of the provider with a
\* server or a credential that it created on the fly and that was never
\* written to the persistent store.
C16_CreatedRecordsPersisted ==
    AtProvider =>
        /\ \A s \in CreatedServers : \E w \in WrittenNow : w.url = srv[s].URL
        /\ \A p \in CreatedUserAuths :
              \E w \in WrittenNow : w.user.Username = ua[p].Username

\* A batch invocation created the server of ServerURL and the credential of
\* Username, made the credential valid with ApiToken of the options, and
\* succeeded without any write to the persistent store.
C16_CreatedNeverWritten ==
    /\ Succeeded
    /\ args.batchMode
    /\ CreatedServers # {}
    /\ CreatedUserAuths # {}
    /\ WrittenNow = {}
    /\ "SaveUserAuth" \notin Range(trace)

----------------------------------------------------------------------------
(* C17 *)

\* A batch invocation without a server and without a ServerURL, on a store
\* with registered servers, has selected its server.
C17Case ==
    /\ args.batchMode
    /\ ~ServerGiven
    /\ passed.ServerURL = ""
    /\ Len(start.config.Servers) > 0
    /\ pc # "server"

\* The positions in the list of registered servers of those whose Name or
\* URL is the current server of the store.
CurrentServerMatches ==
    {i \in 1..Len(start.config.Servers) :
        LET s == start.srv[start.config.Servers[i]]
        IN  s.Name = start.config.CurrentServer
            \/ s.URL = start.config.CurrentServer}

\* C17: the server a batch invocation selects is the first registered server
\* whose Name or URL is the current server of the store, and the first
\* registered server when the current server is empty or matches none; it
\* is always one of the registered servers, and none is created or picked.
C17_BatchSelectsCurrentOrFirstServer ==
    C17Case =>
        /\ loc.server \in Range(start.config.Servers)
        /\ (start.config.CurrentServer # "" /\ CurrentServerMatches # {}) =>
              \E i \in CurrentServerMatches :
                  /\ \A j \in CurrentServerMatches : i <= j
                  /\ loc.server = start.config.Servers[i]
        /\ (start.config.CurrentServer = "" \/ CurrentServerMatches = {}) =>
              loc.server = start.config.Servers[1]
        /\ Range(trace) \cap {"GetOrCreateServer", "PickServer"} = {}
        /\ config.Servers = start.config.Servers

\* The current server matches the second and the third registered server,
\* one by its Name and one by its URL, and the second one was selected.
C17_Witness ==
    /\ C17Case
    /\ CurrentServerMatches = {2, 3}
    /\ loc.server = start.config.Servers[2]
    /\ loc.server # start.config.Servers[1]

----------------------------------------------------------------------------
(* C18 *)

\* A batch invocation without a credential and without a Username has
\* finished its credential selection.
C18Case ==
    /\ args.batchMode
    /\ ~UserAuthGiven
    /\ passed.Username = ""
    /\ loc.server # 0
    /\ pc \notin {"server", "cred"}

\* What the store finds for the current user of the resolved server; 0 when
\* the server has no current user or the store finds nothing.
FoundForCurrentUser ==
    LET s == srv[loc.server]
    IN  IF s.CurrentUser = "" THEN 0
        ELSE FindUserAuth(Store, s.URL, s.CurrentUser)

\* C18: a batch invocation without a credential and without a Username
\* fails with NoCredentialsConfigured when the resolved server has no
\* registered user; otherwise its credential is the one the store finds for
\* the current user of the server, and the first registered user of the
\* server when the current user is empty or nothing is found.
C18_BatchSelectsCurrentOrFirstCredential ==
    C18Case =>
        IF Len(srv[loc.server].Users) = 0
        THEN /\ Failed
             /\ ret.err = "NoCredentialsConfigured"
             /\ loc.userAuth = 0
        ELSE /\ ret.err # "NoCredentialsConfigured"
             /\ FoundForCurrentUser # 0 => loc.userAuth = FoundForCurrentUser
             /\ FoundForCurrentUser = 0 =>
                   loc.userAuth = srv[loc.server].Users[1]

\* The store found the credential of the current user, which is not the
\* first registered user of the server, and it was selected.
C18_Witness ==
    /\ C18Case
    /\ FoundForCurrentUser # 0
    /\ FoundForCurrentUser # srv[loc.server].Users[1]
    /\ loc.userAuth = FoundForCurrentUser
    /\ "FindUserAuth" \in Range(trace)

\* The resolved server has no registered user and the invocation failed.
C18_WitnessNoUsers ==
    /\ C18Case
    /\ Len(srv[loc.server].Users) = 0
    /\ ret.err = "NoCredentialsConfigured"

----------------------------------------------------------------------------
(* C19 *)

\* The credential has been selected and was in the store, with a token,
\* when the invocation started.
SelectedValid ==
    /\ pc \notin {"server", "cred"}
    /\ loc.userAuth \in 1..Len(start.ua)
    /\ ~IsInvalid(start.ua[loc.userAuth])

\* A credential that is valid when selected: it stays as it was, the edit
\* flow is not entered and nothing is written to the store.
ValidKept ==
    SelectedValid =>
        /\ ua[loc.userAuth] = start.ua[loc.userAuth]
        /\ Range(trace) \cap {"EditUserAuth", "EditPrompt", "SaveUserAuth"} = {}
        /\ saved = start.saved

\* The step that follows the selection of the credential: the token of the
\* options is applied exactly when the credential is invalid and the token
\* is not empty, and then the edit flow is not entered; an invalid
\* credential without a token in the options enters the edit flow.
TokenStep ==
    pc = "auth" =>
        LET u == ua[loc.userAuth]
            v == ua'[loc.userAuth]
            token == repoOptions.ApiToken
        IN  /\ ~IsInvalid(u) => (v = u /\ trace' = trace /\ saved' = saved)
            /\ (IsInvalid(u) /\ token # "") =>
                  /\ v = [u EXCEPT !.ApiToken = token]
                  /\ trace' = trace
                  /\ saved' = saved
                  /\ pc' = "provider"
            /\ (IsInvalid(u) /\ token = "") =>
                  /\ trace'[Len(trace) + 1] = "EditUserAuth"
                  /\ v.Username = u.Username

\* C19: the token of the options is applied to the selected credential
\* exactly when that credential is invalid and the token is not empty; a
\* credential that is valid when selected keeps its token, also when the
\* token of the options differs, the edit flow is not entered for it and
\* nothing is written to the store.
C19_TokenAppliedOnlyToInvalid == [](ValidKept) /\ [][TokenStep]_vars

\* The token of the options was applied to an invalid credential, which
\* went on to the provider without the edit flow.
C19_Witness ==
    /\ pc \notin {"server", "cred", "auth"}
    /\ loc.userAuth \in 1..Len(start.ua)
    /\ IsInvalid(start.ua[loc.userAuth])
    /\ repoOptions.ApiToken = "t2"
    /\ ua[loc.userAuth].ApiToken = "t2"
    /\ "EditUserAuth" \notin Range(trace)

\* A valid credential kept its token although the options held another.
C19_WitnessKept ==
    /\ SelectedValid
    /\ Succeeded
    /\ repoOptions.ApiToken = "t2"
    /\ ua[loc.userAuth].ApiToken = "t1"

----------------------------------------------------------------------------
(* C20 *)

\* The positions of the SaveUserAuth calls of the invocation.
SaveCalls == {i \in 1..Len(trace) : trace[i] = "SaveUserAuth"}

\* SaveUserAuth was called and wrote nothing: it returned an error.
SaveFailed == SaveCalls # {} /\ saved = start.saved

\* C20: an invocation calls SaveUserAuth at most once, and only in the edit
\* flow, right after EditUserAuth returned without error; an invocation
\* that does not enter the edit flow calls no SaveUserAuth and writes nothing;
\* when SaveUserAuth fails the invocation ends with PersistenceFailed, with
\* no result and before the provider is constructed.
C20_SaveOnceInEditFlow ==
    /\ Cardinality(SaveCalls) <= 1
    /\ Len(saved) <= Len(start.saved) + 1
    /\ \A i \in SaveCalls :
          /\ i > 1
          /\ trace[i - 1] \in {"EditUserAuth", "EditPrompt"}
          /\ \A j \in 1..Len(trace) : trace[j] = "EditUserAuth" => j < i
          /\ ~(ret.err = "PromptCancelled" /\ trace[Len(trace)] = "EditPrompt")
    /\ "EditUserAuth" \notin Range(trace) =>
          (SaveCalls = {} /\ saved = start.saved)
    /\ SaveFailed <=> (Failed /\ ret.err = "PersistenceFailed")
    /\ SaveFailed =>
          /\ ret.result = <<>>
          /\ "CreateProvider" \notin Range(trace)
          /\ loc.provider = 0

\* SaveUserAuth failed in the edit flow of an interactive invocation whose
\* user had entered a token.
C20_Witness ==
    /\ SaveFailed
    /\ Failed
    /\ ret.err = "PersistenceFailed"
    /\ ~args.batchMode
    /\ ~IsInvalid(ua[loc.userAuth])
    /\ trace[Len(trace)] = "SaveUserAuth"

====
